---- MODULE Spec2Model ----
(***************************************************************************)
(* go-mines: the msboard.Board engine (src/msboard/Board.go) and the       *)
(* console controller msgame.Game.RunConsole (src/msgame/Game.go).         *)
(*                                                                         *)
(* A *cell is modelled by the Location it sits at (cell.location), the nil *)
(* pointer by NilCell.  Board.cells is a function from the locations of    *)
(* the grid to cell records; the nil slice of a board that was never       *)
(* initialized is the empty function.                                      *)
(***************************************************************************)
EXTENDS Integers, Sequences, FiniteSets, TLC

VARIABLES
    b,      \* the *Board under play (NilBoard when there is none)
    pc,     \* "idle": no Board method running; "place": inside Initialize's placement loop
    frame,  \* locals of the running Initialize: safespot, minesToPlace, row, col
    last,   \* the last completed call: its name, its argument (for Click, ToggleFlag and
            \* RevealAll what the call found), the error and the board it returned
    g,      \* locals of RunConsole: its position, gameInit, the move in hand, end of input seen
    moves   \* the number of Click, ToggleFlag and RevealAll calls the API caller has made

vars == <<b, pc, frame, last, g, moves>>

----------------------------------------------------------------------------
(* Bounds of the model *)

\* the grids explored have at most MaxRows x MaxCols cells and MaxMines mines
MaxRows == 2
MaxCols == 3
MaxMines == 1
\* the API caller makes at most MaxMoves Click, ToggleFlag and RevealAll calls on a board
MaxMoves == 2
\* the grids that are initialized but not played on have at most WideRows x WideCols
\* cells and WideMines mines
WideRows == 3
WideCols == 3
WideMines == 2
\* the grids RunConsole plays on have at most GameRows x GameCols cells and GameMines mines
GameRows == 1
GameCols == 2
GameMines == 1

Min(x, y) == IF x < y THEN x ELSE y

----------------------------------------------------------------------------
(* Values *)

NilBoard == [nil |-> TRUE]
NilCell == <<>>
NilCells == [l \in {} |-> FALSE]
NoFrame == [running |-> FALSE]
NoCall == [op |-> "none", arg |-> <<>>, err |-> FALSE, ret |-> <<>>]

\* Location{row, col}
NewLocation(row, col) == <<row, col>>

\* new(cell): the zero value of the cell struct
NewCell == [hasMine |-> FALSE, score |-> 0, flagged |-> FALSE, revealed |-> FALSE]

\* the locations of a rows x cols grid
Grid(rows, cols) == (0 .. rows - 1) \X (0 .. cols - 1)

\* the draws of rand.Intn(100) on either side of the test mineshot < 2
MineShots == {1, 2}

\* the difficulty names handed to NewBoard
DifficultyInputs == {"", "easy", "medium", "hard", "nightmare", "Easy", "unknown"}

\* the difficulty names of the boards that are played on through the API
PlayDifficulties == {"easy", "nightmare"}

----------------------------------------------------------------------------
(* msboard: construction *)

boardDefinitionsDict ==
    [easy   |-> [difficulty |-> "easy",   rows |-> 9,  cols |-> 9,  mineCount |-> 10],
     medium |-> [difficulty |-> "medium", rows |-> 16, cols |-> 16, mineCount |-> 30],
     hard   |-> [difficulty |-> "hard",   rows |-> 30, cols |-> 16, mineCount |-> 72]]

\* NewBoard that hands out the easy board for a name it does not know
NewBoard_UnknownIsEasy(difficulty) ==
    LET params == IF difficulty \in DOMAIN boardDefinitionsDict
                  THEN boardDefinitionsDict[difficulty]
                  ELSE boardDefinitionsDict["easy"]
    IN [difficulty       |-> difficulty,
        rows             |-> params.rows,
        cols             |-> params.cols,
        mineCount        |-> params.mineCount,
        initialized      |-> FALSE,
        mines            |-> <<>>,
        explosionOccured |-> FALSE,
        cells            |-> NilCells,
        safeRemaining    |-> 0]

NewBoard(difficulty) ==
    IF difficulty \notin DOMAIN boardDefinitionsDict
    THEN NilBoard
    ELSE LET params == boardDefinitionsDict[difficulty]
         IN [difficulty       |-> difficulty,
             rows             |-> params.rows,
             cols             |-> params.cols,
             mineCount        |-> params.mineCount,
             initialized      |-> FALSE,
             mines            |-> <<>>,
             explosionOccured |-> FALSE,
             cells            |-> NilCells,
             safeRemaining    |-> 0]

\* the board of the same difficulty cut down to at most rows x cols cells and mineCount mines
Bounded(bd, rows, cols, mineCount) ==
    IF bd = NilBoard
    THEN NilBoard
    ELSE [bd EXCEPT !.rows = Min(bd.rows, rows),
                    !.cols = Min(bd.cols, cols),
                    !.mineCount = Min(bd.mineCount, mineCount)]

\* the boards that are played on
Playable(bd) == Bounded(bd, MaxRows, MaxCols, MaxMines)

\* the boards that are only initialized
Wide(bd) == Bounded(bd, WideRows, WideCols, WideMines)

\* the boards that RunConsole plays on
Console(bd) == Bounded(bd, GameRows, GameCols, GameMines)

----------------------------------------------------------------------------
(* msboard: cell lookup *)

\* ValidLocation that accepts every location
ValidLocation_AcceptsAll(bd, l) == TRUE

ValidLocation(bd, l) ==
    l[1] >= 0 /\ l[1] < bd.rows /\ l[2] >= 0 /\ l[2] < bd.cols

\* the cell at selected, NilCell outside the grid
getCell(bd, selected) ==
    IF selected[1] < 0 \/ selected[1] >= bd.rows \/ selected[2] < 0 \/ selected[2] >= bd.cols
    THEN NilCell
    ELSE selected

\* the candidate neighbour positions in the order the two loops visit them
NeighborLocs(loc) ==
    << NewLocation(loc[1] - 1, loc[2] - 1), NewLocation(loc[1] - 1, loc[2]), NewLocation(loc[1] - 1, loc[2] + 1),
       NewLocation(loc[1],     loc[2] - 1), NewLocation(loc[1],     loc[2]), NewLocation(loc[1],     loc[2] + 1),
       NewLocation(loc[1] + 1, loc[2] - 1), NewLocation(loc[1] + 1, loc[2]), NewLocation(loc[1] + 1, loc[2] + 1) >>

\* IsNeighbor without the test that leaves the centre out
IsNeighbor_CountsCenter(bd, loc, neighborloc) ==
    getCell(bd, neighborloc) # NilCell

IsNeighbor(bd, loc, neighborloc) ==
    /\ loc # neighborloc
    /\ getCell(bd, neighborloc) # NilCell

getNeighborCells(bd, loc) ==
    IF getCell(bd, loc) = NilCell
    THEN <<>>
    ELSE SelectSeq(NeighborLocs(loc), LAMBDA n : IsNeighbor(bd, loc, n))

----------------------------------------------------------------------------
(* msboard: Initialize *)

CellScore(bd, currloc) ==
    Len(SelectSeq(getNeighborCells(bd, currloc), LAMBDA n : bd.cells[n].hasMine))

initializeScores(bd) ==
    [bd EXCEPT !.cells = [l \in DOMAIN bd.cells |->
                             [bd.cells[l] EXCEPT !.score = CellScore(bd, l)]]]

\* Initialize up to the placement loop: fresh default cells, safeRemaining = rows*cols
InitializeReset(bd) ==
    [bd EXCEPT !.cells = [l \in Grid(bd.rows, bd.cols) |-> NewCell],
               !.safeRemaining = bd.rows * bd.cols]

\* PlaceAt without the test that keeps the mine off the safe spot
PlaceAt_IgnoresSafespot(bd, fr, currloc, mineshot) ==
    IF fr.minesToPlace = 0
    THEN [bd |-> bd, minesToPlace |-> fr.minesToPlace]
    ELSE IF mineshot < 2 /\ ~bd.cells[currloc].hasMine
    THEN [bd |-> [bd EXCEPT !.cells[currloc].hasMine = TRUE,
                            !.mines = Append(bd.mines, currloc),
                            !.safeRemaining = bd.safeRemaining - 1],
          minesToPlace |-> fr.minesToPlace - 1]
    ELSE [bd |-> bd, minesToPlace |-> fr.minesToPlace]

\* the loop body without the test "minesToPlace == 0"
PlaceAt_IgnoresCount(bd, fr, currloc, mineshot) ==
    IF currloc = fr.safespot
    THEN [bd |-> bd, minesToPlace |-> fr.minesToPlace]
    ELSE IF mineshot < 2 /\ ~bd.cells[getCell(bd, currloc)].hasMine
    THEN [bd |-> [bd EXCEPT !.cells[currloc].hasMine = TRUE,
                            !.mines = Append(bd.mines, currloc),
                            !.safeRemaining = bd.safeRemaining - 1],
          minesToPlace |-> fr.minesToPlace - 1]
    ELSE [bd |-> bd, minesToPlace |-> fr.minesToPlace]

\* the body of the inner placement loop at currloc, with the draw mineshot
PlaceAt(bd, fr, currloc, mineshot) ==
    IF fr.minesToPlace = 0
    THEN [bd |-> bd, minesToPlace |-> fr.minesToPlace]
    ELSE IF currloc = fr.safespot
    THEN [bd |-> bd, minesToPlace |-> fr.minesToPlace]
    ELSE IF mineshot < 2 /\ ~bd.cells[getCell(bd, currloc)].hasMine
    THEN [bd |-> [bd EXCEPT !.cells[currloc].hasMine = TRUE,
                            !.mines = Append(bd.mines, currloc),
                            !.safeRemaining = bd.safeRemaining - 1],
          minesToPlace |-> fr.minesToPlace - 1]
    ELSE [bd |-> bd, minesToPlace |-> fr.minesToPlace]

\* Initialize after the placement loop: scores, initialized = true, return nil
InitializeFinish(bd) ==
    [initializeScores(bd) EXCEPT !.initialized = TRUE]

----------------------------------------------------------------------------
(* msboard: queries *)

Initialized(bd) == IF bd = NilBoard THEN FALSE ELSE bd.initialized

SafeRemaining(bd) ==
    IF bd = NilBoard \/ ~bd.initialized THEN 0 ELSE bd.safeRemaining

MineHit(bd) == bd.explosionOccured

\* scoreRunes[score] of the code, which indexes from 0
scoreRunes == <<"_", "1", "2", "3", "4", "5", "6", "7", "8">>

\* cell.Render for the cell c of bd (NilCell is the nil *cell)
Render(bd, c) ==
    IF c = NilCell THEN "~"
    ELSE IF ~bd.cells[c].revealed THEN "."
    ELSE IF bd.cells[c].flagged THEN "+"
    ELSE IF bd.cells[c].hasMine THEN "*"
    ELSE scoreRunes[bd.cells[c].score + 1]

----------------------------------------------------------------------------
(* msboard: moves *)

RECURSIVE PropagateReveals(_, _)
RECURSIVE RevealNeighbors(_, _, _)

\* the loop of PropagateReveals over neighbors, from index i on
RevealNeighbors(bd, neighbors, i) ==
    IF i > Len(neighbors)
    THEN bd
    ELSE LET n == neighbors[i]
         IN IF bd.cells[n].revealed
            THEN RevealNeighbors(bd, neighbors, i + 1)
            ELSE LET shown == [bd EXCEPT !.cells[n].revealed = TRUE]
                     after == IF shown.cells[n].score = 0
                              THEN PropagateReveals(shown, n)
                              ELSE shown
                 IN RevealNeighbors(after, neighbors, i + 1)

PropagateReveals(bd, c) ==
    IF c = NilCell
    THEN bd
    ELSE RevealNeighbors(bd, getNeighborCells(bd, c), 1)

\* The same flood with a trace of its work: tr.bd is the board, tr.revealed lists the
\* cells in the order "n.revealed = true" is executed on them, tr.flooded lists the cells
\* in the order PropagateReveals gets past its nil test on them.
NoTrace(bd) == [bd |-> bd, revealed |-> <<>>, flooded |-> <<>>]

RECURSIVE PropagateRevealsTraced(_, _)
RECURSIVE RevealNeighborsTraced(_, _, _)
RECURSIVE RevealNeighborsTraced_Revisits(_, _, _)

\* the loop without its "continue" for revealed neighbors
RevealNeighborsTraced_Revisits(tr, neighbors, i) ==
    IF i > Len(neighbors)
    THEN tr
    ELSE LET n == neighbors[i]
             shown == [tr EXCEPT !.bd.cells[n].revealed = TRUE, !.revealed = Append(@, n)]
             after == IF ~tr.bd.cells[n].revealed /\ shown.bd.cells[n].score = 0
                      THEN PropagateRevealsTraced(shown, n)
                      ELSE shown
         IN RevealNeighborsTraced_Revisits(after, neighbors, i + 1)

RevealNeighborsTraced(tr, neighbors, i) ==
    IF i > Len(neighbors)
    THEN tr
    ELSE LET n == neighbors[i]
         IN IF tr.bd.cells[n].revealed
            THEN RevealNeighborsTraced(tr, neighbors, i + 1)
            ELSE LET shown == [tr EXCEPT !.bd.cells[n].revealed = TRUE,
                                         !.revealed = Append(@, n)]
                     after == IF shown.bd.cells[n].score = 0
                              THEN PropagateRevealsTraced(shown, n)
                              ELSE shown
                 IN RevealNeighborsTraced(after, neighbors, i + 1)

PropagateRevealsTraced(tr, c) ==
    IF c = NilCell
    THEN tr
    ELSE RevealNeighborsTraced([tr EXCEPT !.flooded = Append(@, c)],
                               getNeighborCells(tr.bd, c), 1)

\* Click that propagates from every cell without a mine, whatever its score
Click_AlwaysPropagates(bd, l) ==
    LET c == getCell(bd, l)
    IN IF c = NilCell THEN bd
       ELSE IF bd.cells[c].flagged THEN bd
       ELSE IF bd.cells[c].revealed THEN bd
       ELSE LET shown == [bd EXCEPT !.cells[c].revealed = TRUE]
            IN IF shown.cells[c].hasMine
               THEN [shown EXCEPT !.explosionOccured = TRUE]
               ELSE RevealNeighbors(shown, getNeighborCells(shown, c), 1)

\* Click that hides a revealed cell again
Click_HidesRevealed(bd, l) ==
    LET c == getCell(bd, l)
    IN IF c = NilCell THEN bd
       ELSE IF bd.cells[c].flagged THEN bd
       ELSE IF bd.cells[c].revealed THEN [bd EXCEPT !.cells[c].revealed = FALSE]
       ELSE LET shown == [bd EXCEPT !.cells[c].revealed = TRUE]
            IN IF shown.cells[c].hasMine
               THEN [shown EXCEPT !.explosionOccured = TRUE]
               ELSE IF shown.cells[c].score = 0
               THEN PropagateReveals(shown, c)
               ELSE shown

\* Click that takes the mine out of the cell it explodes
Click_ClearsMine(bd, l) ==
    LET c == getCell(bd, l)
    IN IF c = NilCell THEN bd
       ELSE IF bd.cells[c].flagged THEN bd
       ELSE IF bd.cells[c].revealed THEN bd
       ELSE LET shown == [bd EXCEPT !.cells[c].revealed = TRUE]
            IN IF shown.cells[c].hasMine
               THEN [shown EXCEPT !.explosionOccured = TRUE, !.cells[c].hasMine = FALSE]
               ELSE IF shown.cells[c].score = 0
               THEN PropagateReveals(shown, c)
               ELSE shown

\* Click with the trace of the reveals and floods it makes
ClickTraced(bd, l) ==
    LET c == getCell(bd, l)
    IN IF c = NilCell THEN NoTrace(bd)
       ELSE IF bd.cells[c].flagged THEN NoTrace(bd)
       ELSE IF bd.cells[c].revealed THEN NoTrace(bd)
       ELSE LET shown == [bd |-> [bd EXCEPT !.cells[c].revealed = TRUE],
                          revealed |-> <<c>>, flooded |-> <<>>]
            IN IF shown.bd.cells[c].hasMine
               THEN [shown EXCEPT !.bd.explosionOccured = TRUE]
               ELSE IF shown.bd.cells[c].score = 0
               THEN PropagateRevealsTraced(shown, c)
               ELSE shown

\* Click without the return after the explosion
Click_MinePropagates(bd, l) ==
    LET c == getCell(bd, l)
    IN IF c = NilCell THEN bd
       ELSE IF bd.cells[c].flagged THEN bd
       ELSE IF bd.cells[c].revealed THEN bd
       ELSE LET shown == [bd EXCEPT !.cells[c].revealed = TRUE,
                                    !.explosionOccured = bd.explosionOccured \/ bd.cells[c].hasMine]
            IN IF shown.cells[c].score = 0
               THEN PropagateReveals(shown, c)
               ELSE shown

\* Click without the test that protects flagged cells
Click_IgnoresFlag(bd, l) ==
    LET c == getCell(bd, l)
    IN IF c = NilCell THEN bd
       ELSE IF bd.cells[c].revealed THEN bd
       ELSE LET shown == [bd EXCEPT !.cells[c].revealed = TRUE]
            IN IF shown.cells[c].hasMine
               THEN [shown EXCEPT !.explosionOccured = TRUE]
               ELSE IF shown.cells[c].score = 0
               THEN PropagateReveals(shown, c)
               ELSE shown

\* Click that reveals the clicked cell only
Click_NoPropagate(bd, l) ==
    LET c == getCell(bd, l)
    IN IF c = NilCell THEN bd
       ELSE IF bd.cells[c].flagged THEN bd
       ELSE IF bd.cells[c].revealed THEN bd
       ELSE LET shown == [bd EXCEPT !.cells[c].revealed = TRUE]
            IN IF shown.cells[c].hasMine
               THEN [shown EXCEPT !.explosionOccured = TRUE]
               ELSE shown

Click(bd, l) ==
    LET c == getCell(bd, l)
    IN IF c = NilCell THEN bd
       ELSE IF bd.cells[c].flagged THEN bd
       ELSE IF bd.cells[c].revealed THEN bd
       ELSE LET shown == [bd EXCEPT !.cells[c].revealed = TRUE]
            IN IF shown.cells[c].hasMine
               THEN [shown EXCEPT !.explosionOccured = TRUE]
               ELSE IF shown.cells[c].score = 0
               THEN PropagateReveals(shown, c)
               ELSE shown

\* ToggleFlag without the test that leaves revealed cells alone
ToggleFlag_OnRevealed(bd, l) ==
    LET c == getCell(bd, l)
    IN IF c # NilCell
       THEN [bd EXCEPT !.cells[c].flagged = ~bd.cells[c].flagged]
       ELSE bd

ToggleFlag(bd, l) ==
    LET c == getCell(bd, l)
    IN IF c # NilCell /\ bd.cells[c].revealed = FALSE
       THEN [bd EXCEPT !.cells[c].flagged = ~bd.cells[c].flagged]
       ELSE bd

\* RevealAll that lets a revealed mine explode
RevealAll_Explodes(bd) ==
    IF bd = NilBoard \/ ~bd.initialized
    THEN [bd |-> bd, err |-> TRUE]
    ELSE [bd |-> [bd EXCEPT !.cells = [l \in DOMAIN bd.cells |->
                                          [bd.cells[l] EXCEPT !.revealed = TRUE]],
                            !.explosionOccured = \E l \in DOMAIN bd.cells : bd.cells[l].hasMine],
          err |-> FALSE]

\* RevealAll without the test for an initialized board
RevealAll_NoInitCheck(bd) ==
    IF bd = NilBoard
    THEN [bd |-> bd, err |-> TRUE]
    ELSE [bd |-> [bd EXCEPT !.cells = [l \in DOMAIN bd.cells |->
                                          [bd.cells[l] EXCEPT !.revealed = TRUE]]],
          err |-> FALSE]

\* the board after RevealAll and whether an error was returned
RevealAll(bd) ==
    IF bd = NilBoard \/ ~bd.initialized
    THEN [bd |-> bd, err |-> TRUE]
    ELSE [bd |-> [bd EXCEPT !.cells = [l \in DOMAIN bd.cells |->
                                          [bd.cells[l] EXCEPT !.revealed = TRUE]]],
          err |-> FALSE]

\* b.cells[row][col] on the nil slice of a board never initialized: index out of range
IndexPanics(bd, l) == getCell(bd, l) # NilCell /\ l \notin DOMAIN bd.cells

----------------------------------------------------------------------------
(* Inputs *)

\* the locations handed to Click and ToggleFlag: the grid and the positions one step outside it
LocInputs(bd) ==
    Grid(bd.rows, bd.cols)
        \cup {NewLocation(-1, 0), NewLocation(0, -1), NewLocation(bd.rows, 0), NewLocation(0, bd.cols)}

\* l \in LocInputs(bd)
IsLocInput(bd, l) ==
    \/ ValidLocation(bd, l)
    \/ l = NewLocation(-1, 0) \/ l = NewLocation(0, -1)
    \/ l = NewLocation(bd.rows, 0) \/ l = NewLocation(0, bd.cols)

\* what a call of Click or ToggleFlag finds at l
Found(bd, l) ==
    IF getCell(bd, l) = NilCell THEN "outside"
    ELSE IF l \notin DOMAIN bd.cells THEN "panic"
    ELSE IF bd.cells[l].revealed /\ bd.cells[l].flagged THEN "revealed flagged"
    ELSE IF bd.cells[l].revealed THEN "revealed"
    ELSE IF bd.cells[l].flagged THEN "flagged"
    ELSE IF bd.cells[l].hasMine THEN "mine"
    ELSE "safe"

\* every location handed to Click and ToggleFlag on some board
AllLocInputs == (-1 .. MaxRows) \X (-1 .. MaxCols)

\* what a call of RevealAll finds
FoundAll(bd) ==
    IF ~Initialized(bd) THEN "uninitialized"
    ELSE IF \A l \in DOMAIN bd.cells : bd.cells[l].revealed THEN "revealed"
    ELSE "hidden"

GameOff == [pc |-> "off", gameInit |-> FALSE, cmd |-> "", location |-> NilCell, eof |-> FALSE]

----------------------------------------------------------------------------
(* A caller of the msboard API *)

Init ==
    /\ b = NilBoard
    /\ pc = "idle"
    /\ frame = NoFrame
    /\ last = NoCall
    /\ g = GameOff
    /\ moves = 0

CallNewBoard(difficulty) ==
    /\ g.pc = "off"
    /\ pc = "idle"
    /\ b = NilBoard
    /\ b' = Playable(NewBoard(difficulty))
    /\ last' = [op |-> "NewBoard", arg |-> difficulty, err |-> FALSE, ret |-> NewBoard(difficulty)]
    /\ UNCHANGED <<pc, frame, g, moves>>

\* entry of Initialize: the reset, then into the placement loop
BeginInitialize(bd, safespot) ==
    IF bd.mineCount > 0
    THEN /\ b' = InitializeReset(bd)
         /\ pc' = "place"
         /\ frame' = [running |-> TRUE, safespot |-> safespot,
                      minesToPlace |-> bd.mineCount, row |-> 0, col |-> 0]
         /\ last' = last
    ELSE /\ b' = InitializeFinish(InitializeReset(bd))
         /\ pc' = "idle"
         /\ frame' = NoFrame
         /\ last' = [op |-> "Initialize", arg |-> safespot, err |-> FALSE, ret |-> <<>>]

CallInitialize(safespot) ==
    /\ g.pc = "off"
    /\ pc = "idle"
    /\ b # NilBoard
    /\ safespot \in Grid(b.rows, b.cols)
    /\ ~Initialized(b)
    /\ BeginInitialize(b, safespot)
    /\ UNCHANGED <<g, moves>>

\* one iteration of the inner placement loop; after the last cell of a scan the outer
\* loop either starts the next scan or Initialize computes the scores and returns
PlaceStep(mineshot) ==
    /\ pc = "place"
    /\ LET currloc == NewLocation(frame.row, frame.col)
           placed == PlaceAt(b, frame, currloc, mineshot)
       IN IF frame.col < b.cols - 1
          THEN /\ b' = placed.bd
               /\ frame' = [frame EXCEPT !.minesToPlace = placed.minesToPlace, !.col = frame.col + 1]
               /\ UNCHANGED <<pc, last>>
          ELSE IF frame.row < b.rows - 1
          THEN /\ b' = placed.bd
               /\ frame' = [frame EXCEPT !.minesToPlace = placed.minesToPlace,
                                         !.row = frame.row + 1, !.col = 0]
               /\ UNCHANGED <<pc, last>>
          ELSE IF placed.minesToPlace > 0
          THEN /\ b' = placed.bd
               /\ frame' = [frame EXCEPT !.minesToPlace = placed.minesToPlace, !.row = 0, !.col = 0]
               /\ UNCHANGED <<pc, last>>
          ELSE /\ b' = InitializeFinish(placed.bd)
               /\ frame' = NoFrame
               /\ pc' = "idle"
               /\ last' = [op |-> "Initialize", arg |-> frame.safespot, err |-> FALSE, ret |-> <<>>]
    /\ UNCHANGED <<g, moves>>

CallClick(l) ==
    /\ g.pc = "off"
    /\ pc = "idle"
    /\ b # NilBoard
    /\ IsLocInput(b, l)
    /\ moves < MaxMoves
    /\ moves' = moves + 1
    /\ IF IndexPanics(b, l)
       THEN /\ pc' = "panic"
            /\ b' = b
            /\ last' = [op |-> "Click", arg |-> Found(b, l), err |-> FALSE, ret |-> <<>>]
       ELSE LET tr == ClickTraced(b, l)
            IN /\ pc' = pc
               /\ b' = Click(b, l)
               /\ last' = [op |-> "Click", arg |-> Found(b, l), err |-> FALSE,
                           ret |-> [revealed |-> tr.revealed, flooded |-> tr.flooded]]
    /\ UNCHANGED <<frame, g>>

CallToggleFlag(l) ==
    /\ g.pc = "off"
    /\ pc = "idle"
    /\ b # NilBoard
    /\ IsLocInput(b, l)
    /\ moves < MaxMoves
    /\ moves' = moves + 1
    /\ IF IndexPanics(b, l)
       THEN pc' = "panic" /\ b' = b
       ELSE /\ pc' = pc
            /\ b' = ToggleFlag(b, l)
    /\ last' = [op |-> "ToggleFlag", arg |-> Found(b, l), err |-> FALSE, ret |-> <<>>]
    /\ UNCHANGED <<frame, g>>

CallRevealAll ==
    /\ g.pc = "off"
    /\ pc = "idle"
    /\ moves < MaxMoves
    /\ moves' = moves + 1
    /\ b' = RevealAll(b).bd
    /\ last' = [op |-> "RevealAll", arg |-> FoundAll(b), err |-> RevealAll(b).err, ret |-> <<>>]
    /\ UNCHANGED <<pc, frame, g>>

\* the caller is between two calls
Idle == g.pc = "off" /\ pc = "idle"

Next ==
    \/ \E difficulty \in PlayDifficulties : CallNewBoard(difficulty)
    \/ Idle /\ \E safespot \in Grid(MaxRows, MaxCols) : CallInitialize(safespot)
    \/ \E mineshot \in MineShots : PlaceStep(mineshot)
    \/ Idle /\ moves < MaxMoves /\ \E l \in AllLocInputs : CallClick(l)
    \/ Idle /\ moves < MaxMoves /\ \E l \in AllLocInputs : CallToggleFlag(l)
    \/ CallRevealAll

Spec == Init /\ [][Next]_vars

\* A caller that also restarts a lost board: Initialize is called again on the board on
\* which a mine was hit. The restart counts as one of the caller's moves.
CallInitializeAgain(safespot) ==
    /\ g.pc = "off"
    /\ pc = "idle"
    /\ b # NilBoard
    /\ safespot \in Grid(b.rows, b.cols)
    /\ Initialized(b)
    /\ MineHit(b)
    /\ moves < MaxMoves
    /\ moves' = moves + 1
    /\ BeginInitialize(b, safespot)
    /\ UNCHANGED g

NextRestart ==
    \/ Next
    \/ Idle /\ moves < MaxMoves /\ \E safespot \in Grid(MaxRows, MaxCols) : CallInitializeAgain(safespot)

SpecRestart == Init /\ [][NextRestart]_vars

----------------------------------------------------------------------------
(* A caller that only constructs and initializes boards *)

CallNewBoardWide(difficulty) ==
    /\ g.pc = "off"
    /\ pc = "idle"
    /\ b = NilBoard
    /\ b' = Wide(NewBoard(difficulty))
    /\ last' = [op |-> "NewBoard", arg |-> difficulty, err |-> FALSE, ret |-> NewBoard(difficulty)]
    /\ UNCHANGED <<pc, frame, g, moves>>

NextInit ==
    \/ \E difficulty \in DifficultyInputs : CallNewBoardWide(difficulty)
    \/ Idle /\ \E safespot \in Grid(WideRows, WideCols) : CallInitialize(safespot)
    \/ \E mineshot \in MineShots : PlaceStep(mineshot)

SpecInit == Init /\ [][NextInit]_vars

\* Construction and placement on boards of the playing size, with fair randomness: the
\* placement loop keeps running, and the draws made again and again at cells that can
\* take a mine fall below 2 again and again.
DrawPlacesMine ==
    /\ pc = "place"
    /\ PlaceStep(1)
    /\ b'.mines # b.mines

NextPlace ==
    \/ \E difficulty \in DifficultyInputs : CallNewBoard(difficulty)
    \/ Idle /\ \E safespot \in Grid(MaxRows, MaxCols) : CallInitialize(safespot)
    \/ \E mineshot \in MineShots : PlaceStep(mineshot)

SpecPlaceFair ==
    /\ Init
    /\ [][NextPlace]_vars
    /\ WF_vars(\E mineshot \in MineShots : PlaceStep(mineshot))
    /\ SF_vars(DrawPlacesMine)

----------------------------------------------------------------------------
(* msgame: reading the console.  A line is a sequence of one-character strings. *)

EOF == <<"EOF">>

ToLower(c) ==
    CASE c = "A" -> "a" [] c = "B" -> "b" [] c = "C" -> "c" [] c = "D" -> "d"
      [] c = "E" -> "e" [] c = "F" -> "f" [] c = "G" -> "g" [] c = "H" -> "h"
      [] c = "M" -> "m" [] c = "Q" -> "q" [] c = "S" -> "s" [] c = "X" -> "x"
      [] OTHER -> c

\* the code point of a character, for the characters of the input alphabet
Rune(c) ==
    CASE c = "a" -> 97 [] c = "b" -> 98 [] c = "c" -> 99 [] c = "d" -> 100
      [] c = "e" -> 101 [] c = "f" -> 102 [] c = "g" -> 103 [] c = "h" -> 104
      [] c = "m" -> 109 [] c = "q" -> 113 [] c = "s" -> 115 [] c = "x" -> 120
      [] c = " " -> 32 [] c = "-" -> 45
      [] OTHER -> 63

DigitChars == <<"0", "1", "2", "3", "4", "5", "6", "7", "8", "9">>

IsDigit(c) == \E i \in 1 .. Len(DigitChars) : DigitChars[i] = c

DigitValue(c) == (CHOOSE i \in 1 .. Len(DigitChars) : DigitChars[i] = c) - 1

RECURSIVE TrimLeft(_)
TrimLeft(line) ==
    IF line # <<>> /\ Head(line) \in {" ", "\n"} THEN TrimLeft(Tail(line)) ELSE line

RECURSIVE TrimRight(_)
TrimRight(line) ==
    IF line # <<>> /\ line[Len(line)] \in {" ", "\n"}
    THEN TrimRight(SubSeq(line, 1, Len(line) - 1))
    ELSE line

\* readInput: error at end of input, else the line trimmed of blanks and lower-cased
readInput(eof, line) ==
    IF eof \/ line = EOF
    THEN [line |-> <<>>, err |-> TRUE]
    ELSE LET trimmed == TrimRight(TrimLeft(line))
         IN [line |-> [i \in 1 .. Len(trimmed) |-> ToLower(trimmed[i])], err |-> FALSE]

\* readOneCharacter: inLine[0:1]; slicing the empty line panics
readOneCharacter(eof, line) ==
    LET in == readInput(eof, line)
    IN IF in.err THEN [char |-> "", err |-> TRUE, panic |-> FALSE]
       ELSE IF Len(in.line) < 1 THEN [char |-> "", err |-> FALSE, panic |-> TRUE]
       ELSE [char |-> in.line[1], err |-> FALSE, panic |-> FALSE]

RECURSIVE Atoi(_, _)
\* the decimal value of a sequence of digits, after the value acc of the digits before it
Atoi(digits, acc) ==
    IF digits = <<>> THEN acc ELSE Atoi(Tail(digits), 10 * acc + DigitValue(Head(digits)))

readNextMove(eof, line) ==
    LET in == readInput(eof, line)
    IN IF in.err
       THEN [cmd |-> "", location |-> NewLocation(-1, -1), err |-> TRUE]
       ELSE LET digits == SelectSeq(in.line, IsDigit)
                letters == SelectSeq(in.line, LAMBDA c : ~IsDigit(c))
                atoiErr == digits = <<>>
                userRow == (IF atoiErr THEN -1 ELSE Atoi(digits, 0)) - 1
                userCol == IF Len(letters) > 0 THEN Rune(letters[1]) - Rune("a") ELSE -1
            IN [cmd |-> "s", location |-> NewLocation(userRow, userCol), err |-> atoiErr]

----------------------------------------------------------------------------
(* msgame: the console inputs *)

ColumnLetters == <<"a", "b", "c", "d", "e", "f", "g", "h">>

\* the lines typed at the difficulty prompt
DifficultyLines ==
    {<<"e">>, <<"m">>, <<"h">>, <<"q">>, <<"E">>, <<" ", "m">>, <<"h", "a", "r", "d">>,
     <<"x">>, <<"1">>, <<>>, <<" ">>, EOF}

\* the lines typed at the move prompt: every cell of the grid and the row and column
\* after it, the first row column first as well, and lines that name no cell
MoveLines ==
    {<<DigitChars[r + 1], ColumnLetters[c]>> : r \in 1 .. GameRows + 1, c \in 1 .. GameCols + 1}
        \cup {<<ColumnLetters[c], DigitChars[2]>> : c \in 1 .. GameCols + 1}
        \cup {<<>>, <<"a">>, <<"1">>, <<"0", "a">>, <<"1", " ", "a">>, <<"A", "1">>,
              <<"0", "1", "b">>, <<"f", "1", "a">>, <<"s", "1", "a">>, EOF}

\* what readNextMove returns for each line while the input has not ended
MoveRead == [line \in MoveLines |-> readNextMove(FALSE, line)]

----------------------------------------------------------------------------
(* msgame: RunConsole *)

InitGame ==
    /\ b = NilBoard
    /\ pc = "idle"
    /\ frame = NoFrame
    /\ last = NoCall
    /\ g = [pc |-> "select", gameInit |-> FALSE, cmd |-> "", location |-> NilCell, eof |-> FALSE]
    /\ moves = 0

BoardType(input) ==
    CASE input = "e" -> "easy"
      [] input = "m" -> "medium"
      [] input = "h" -> "hard"
      [] OTHER -> "unknown"

\* the head of the outer loop: the difficulty prompt up to the call of board.Initialize
ChooseGame(line) ==
    /\ UNCHANGED moves
    /\ g.pc = "select"
    /\ pc = "idle"
    /\ LET in == readOneCharacter(g.eof, line)
       IN IF in.err
          THEN /\ g' = [g EXCEPT !.eof = TRUE]
               /\ UNCHANGED <<b, pc, frame, last>>
          ELSE IF in.panic
          THEN /\ pc' = "panic"
               /\ UNCHANGED <<b, frame, last, g>>
          ELSE IF in.char = "q"
          THEN /\ g' = [g EXCEPT !.pc = "exit"]
               /\ UNCHANGED <<b, pc, frame, last>>
          ELSE IF in.char \notin {"e", "m", "h"}
          THEN UNCHANGED <<b, pc, frame, last, g>>
          ELSE /\ BeginInitialize(Console(NewBoard(BoardType(in.char))), NewLocation(0, 0))
               /\ g' = [g EXCEPT !.pc = "init0"]

\* the placeholder Initialize has returned: render, gameInit := false, enter the move loop
StartRound ==
    /\ UNCHANGED moves
    /\ g.pc = "init0"
    /\ pc = "idle"
    /\ g' = [g EXCEPT !.pc = "loop", !.gameInit = FALSE]
    /\ UNCHANGED <<b, pc, frame, last>>

\* the condition of the move loop without the test for a mine hit
RoundContinues_IgnoresMineHit(bd) == SafeRemaining(bd) > 0

\* the condition of the move loop
RoundContinues(bd) == ~MineHit(bd) /\ SafeRemaining(bd) > 0

\* the move loop ends and the outer loop prompts for the next game; board and gameInit
\* are variables of the iteration that ends here
EndRound ==
    /\ UNCHANGED moves
    /\ g.pc = "loop"
    /\ pc = "idle"
    /\ ~RoundContinues(b)
    /\ g' = [g EXCEPT !.pc = "select", !.gameInit = FALSE]
    /\ b' = NilBoard
    /\ UNCHANGED <<pc, frame, last>>

\* the switch on cmd
ApplyMove(bd, cmd, location) ==
    CASE cmd = "s" -> Click(bd, location)
      [] cmd = "f" -> ToggleFlag(bd, location)
      [] OTHER -> bd

MoveCall(bd, cmd, location) ==
    [op |-> IF cmd = "s" THEN "Click" ELSE IF cmd = "f" THEN "ToggleFlag" ELSE "none",
     arg |-> Found(bd, location), err |-> FALSE, ret |-> <<>>]

\* an iteration of the move loop begins: the prompt is written and flushed
PromptMove ==
    /\ UNCHANGED moves
    /\ g.pc = "loop"
    /\ pc = "idle"
    /\ RoundContinues(b)
    /\ g' = [g EXCEPT !.pc = "read"]
    /\ UNCHANGED <<b, pc, frame, last>>

\* the rest of the iteration, from readNextMove up to the call of board.Initialize on the
\* first move; `continue` leads back to the head of the loop
Move(line) ==
    /\ UNCHANGED moves
    /\ g.pc = "read"
    /\ pc = "idle"
    /\ LET in == IF g.eof THEN readNextMove(TRUE, line) ELSE MoveRead[line]
       IN IF in.err
          THEN /\ g' = [g EXCEPT !.pc = "loop", !.eof = g.eof \/ line = EOF]
               /\ last' = [op |-> "readNextMove", arg |-> <<>>, err |-> TRUE, ret |-> <<>>]
               /\ UNCHANGED <<b, pc, frame>>
          ELSE IF ~ValidLocation(b, in.location)
          THEN /\ last' = [op |-> "ValidLocation", arg |-> Found(b, in.location),
                           err |-> FALSE, ret |-> FALSE]
               /\ g' = [g EXCEPT !.pc = "loop"]
               /\ UNCHANGED <<b, pc, frame>>
          ELSE IF ~g.gameInit
          THEN /\ BeginInitialize(b, in.location)
               /\ g' = [g EXCEPT !.pc = "init1", !.gameInit = TRUE,
                                 !.cmd = in.cmd, !.location = in.location]
          ELSE /\ b' = ApplyMove(b, in.cmd, in.location)
               /\ last' = MoveCall(b, in.cmd, in.location)
               /\ g' = [g EXCEPT !.pc = "loop"]
               /\ UNCHANGED <<pc, frame>>

\* the first move applied with gameInit back at false
FirstMove_ForgetsGameInit ==
    /\ UNCHANGED moves
    /\ g.pc = "init1"
    /\ pc = "idle"
    /\ b' = ApplyMove(b, g.cmd, g.location)
    /\ last' = MoveCall(b, g.cmd, g.location)
    /\ g' = [g EXCEPT !.pc = "loop", !.cmd = "", !.location = NilCell, !.gameInit = FALSE]
    /\ UNCHANGED <<pc, frame>>

\* the real Initialize has returned: apply the first move and render
FirstMove ==
    /\ UNCHANGED moves
    /\ g.pc = "init1"
    /\ pc = "idle"
    /\ b' = ApplyMove(b, g.cmd, g.location)
    /\ last' = MoveCall(b, g.cmd, g.location)
    /\ g' = [g EXCEPT !.pc = "loop", !.cmd = "", !.location = NilCell]
    /\ UNCHANGED <<pc, frame>>

\* RunConsole is at the prompt named by at
Prompting(at) == g.pc = at /\ pc = "idle"

NextGame ==
    \/ Prompting("select") /\ \E line \in DifficultyLines : ChooseGame(line)
    \/ \E mineshot \in MineShots : PlaceStep(mineshot)
    \/ StartRound
    \/ PromptMove
    \/ Prompting("read") /\ \E line \in MoveLines : Move(line)
    \/ FirstMove
    \/ EndRound

SpecGame == InitGame /\ [][NextGame]_vars

\* RunConsole keeps running while it has a step to take
SpecGameFair == SpecGame /\ WF_vars(NextGame)

----------------------------------------------------------------------------
(* Vocabulary of the properties *)

Abs(x) == IF x < 0 THEN -x ELSE x

\* m is one of the 8 positions around l
Adjacent(l, m) == l # m /\ Abs(l[1] - m[1]) <= 1 /\ Abs(l[2] - m[2]) <= 1

Cells(bd) == Grid(bd.rows, bd.cols)

MineCells(bd) == {l \in DOMAIN bd.cells : bd.cells[l].hasMine}

RevealedCells(bd) == {l \in DOMAIN bd.cells : bd.cells[l].revealed}

\* the cells without a mine that are still hidden
SafeHidden(bd) == {l \in DOMAIN bd.cells : ~bd.cells[l].hasMine /\ ~bd.cells[l].revealed}

\* a board between two calls, after Initialize
Ready == pc = "idle" /\ Initialized(b)

\* the step is a call of op that returns
Returns(op) == pc = "idle" /\ pc' = "idle" /\ last'.op = op

RECURSIVE ZeroClosure(_, _)
\* the zero-score cells connected to the set region through zero-score cells
ZeroClosure(bd, region) ==
    LET more == {n \in Cells(bd) : bd.cells[n].score = 0 /\ \E m \in region : Adjacent(m, n)}
    IN IF more \subseteq region THEN region ELSE ZeroClosure(bd, region \cup more)

\* the zero-score region of l together with every cell next to it
RegionAndBorder(bd, l) ==
    LET region == ZeroClosure(bd, {l})
    IN region \cup {n \in Cells(bd) : \E m \in region : Adjacent(m, n)}

----------------------------------------------------------------------------
(* Properties *)

\* C1: on an initialized board every Click or ToggleFlag call leaves SafeRemaining()
\* equal to the number of cells that have no mine and are not revealed
C1_SafeRemainingCountsHidden ==
    [][(Ready /\ (Returns("Click") \/ Returns("ToggleFlag"))
            /\ SafeRemaining(b) = Cardinality(SafeHidden(b)))
        => SafeRemaining(b') = Cardinality(SafeHidden(b'))]_vars

\* C2: when Initialize(safe) returns, exactly mineCount cells hold a mine, the cell at
\* safe holds none, and SafeRemaining() = rows*cols - mineCount
C2_InitializePlacesMines ==
    (pc = "idle" /\ last.op = "Initialize")
        => /\ DOMAIN b.cells = Cells(b)
           /\ Cardinality(MineCells(b)) = b.mineCount
           /\ last.arg \notin MineCells(b)
           /\ SafeRemaining(b) = b.rows * b.cols - b.mineCount

\* Initialize has returned on a hard board whose mines all lie before the safe spot in scan order
C2_Witness ==
    /\ pc = "idle"
    /\ last.op = "Initialize"
    /\ b.difficulty = "hard"
    /\ last.arg = NewLocation(b.rows - 1, b.cols - 1)
    /\ Cardinality(MineCells(b)) = WideMines

\* C3: after Initialize the score of every cell is the number of cells among its 8
\* neighbours inside the grid that hold a mine
C3_ScoresCountNeighborMines ==
    Ready => \A l \in Cells(b) :
                b.cells[l].score = Cardinality({n \in MineCells(b) : Adjacent(l, n)})

\* an initialized board with a mine in a corner whose cell has score 1, and an interior
\* cell and an edge cell with score 2
C3_Witness ==
    /\ Ready
    /\ b.rows >= 3 /\ b.cols >= 3
    /\ b.cells[NewLocation(0, 0)].hasMine /\ b.cells[NewLocation(0, 0)].score = 1
    /\ b.cells[NewLocation(1, 1)].score = 2
    /\ b.cells[NewLocation(0, 1)].hasMine
    /\ b.cells[NewLocation(1, 0)].score = 2
    /\ b.cells[NewLocation(2, 2)].score = 0

\* no cell is revealed or flagged
Fresh(bd) == \A l \in DOMAIN bd.cells : ~bd.cells[l].revealed /\ ~bd.cells[l].flagged

\* C4: on a fresh board a Click on a zero-score cell without a mine leaves revealed exactly
\* the zero-score region of that cell and the cells next to the region
C4_ClickRevealsRegionAndBorder ==
    [][(Ready /\ moves' = 1 /\ Fresh(b))
        => \A l \in Cells(b) :
              (~b.cells[l].hasMine /\ b.cells[l].score = 0 /\ CallClick(l))
              => RevealedCells(b') = RegionAndBorder(b, l)]_vars

\* the only call so far was a Click on a zero-score cell: its region of several cells and
\* the border are revealed and a cell without a mine beyond the border is still hidden
C4_Witness ==
    /\ Ready
    /\ moves = 1
    /\ last.op = "Click"
    /\ last.arg = "safe"
    /\ \E l \in RevealedCells(b) :
          /\ b.cells[l].score = 0
          /\ RevealedCells(b) = RegionAndBorder(b, l)
          /\ Cardinality(ZeroClosure(b, {l})) > 1
    /\ SafeHidden(b) # {}

\* C5: in a round of RunConsole, once every cell without a mine is revealed and no mine
\* was hit, SafeRemaining() is 0, which ends the move loop
C5_AllSafeRevealedWins ==
    (g.pc = "loop" /\ pc = "idle" /\ g.gameInit /\ Initialized(b)
        /\ SafeHidden(b) = {} /\ ~MineHit(b))
    => SafeRemaining(b) = 0

\* C6: a Click on a hidden, unflagged cell with a mine reveals that cell and no other,
\* makes MineHit() true and leaves SafeRemaining() as it was
C6_MineClickExplodesOnly ==
    [][(Ready /\ last'.op = "Click" /\ last'.arg = "mine")
        => \A l \in Cells(b) :
              (Found(b, l) = "mine" /\ CallClick(l))
              => /\ b'.cells[l].revealed
                 /\ MineHit(b')
                 /\ SafeRemaining(b') = SafeRemaining(b)
                 /\ RevealedCells(b') = RevealedCells(b) \cup {l}
                 /\ b' = [b EXCEPT !.cells[l].revealed = TRUE, !.explosionOccured = TRUE]]_vars

\* the first call on the board was a Click on a mine of score 0: the mine is the only
\* revealed cell
C6_Witness ==
    /\ Ready
    /\ moves = 1
    /\ last.op = "Click"
    /\ last.arg = "mine"
    /\ MineHit(b)
    /\ \E l \in MineCells(b) : RevealedCells(b) = {l} /\ b.cells[l].score = 0
    /\ SafeRemaining(b) = b.rows * b.cols - b.mineCount

\* C7: NewBoard returns a 9x9 board for "easy", 16x16 for "medium", 30x16 for "hard" and
\* nil for every other name
C7_NewBoardShapes ==
    (pc = "idle" /\ last.op = "NewBoard")
        => /\ last.arg = "easy" => last.ret # NilBoard /\ last.ret.rows = 9 /\ last.ret.cols = 9
           /\ last.arg = "medium" => last.ret # NilBoard /\ last.ret.rows = 16 /\ last.ret.cols = 16
           /\ last.arg = "hard" => last.ret # NilBoard /\ last.ret.rows = 30 /\ last.ret.cols = 16
           /\ last.arg \notin {"easy", "medium", "hard"} => last.ret = NilBoard /\ b = NilBoard

\* NewBoard("hard") has returned a 30x16 board
C7_Witness ==
    /\ pc = "idle"
    /\ last.op = "NewBoard"
    /\ last.arg = "hard"
    /\ last.ret # NilBoard
    /\ last.ret.rows = 30
    /\ last.ret.cols = 16
    /\ b # NilBoard

\* C8: on an initialized board a Click outside the grid, on a revealed cell or on a
\* flagged cell leaves the whole board as it was
C8_IgnoredClickChangesNothing ==
    [][(Ready /\ last'.op = "Click"
            /\ last'.arg \in {"outside", "revealed", "flagged", "revealed flagged"})
        => \A l \in LocInputs(b) :
              (Found(b, l) \in {"outside", "revealed", "flagged", "revealed flagged"}
                  /\ CallClick(l))
              => b' = b]_vars

\* the second call on the board was a Click on the cell the first call had flagged:
\* nothing is revealed and the flag is still there
C8_Witness ==
    /\ Ready
    /\ moves = 2
    /\ last.op = "Click"
    /\ last.arg = "flagged"
    /\ RevealedCells(b) = {}
    /\ ~MineHit(b)
    /\ \E l \in Cells(b) : b.cells[l].flagged

\* C9: on an initialized board ToggleFlag outside the grid or on a revealed cell changes
\* nothing; on a hidden cell it flips the flagged bit of that cell and nothing else, and a
\* second ToggleFlag at the same cell restores the board
C9_ToggleFlagFlipsOneBit ==
    [][(Ready /\ last'.op = "ToggleFlag")
        => IF last'.arg \in {"outside", "revealed", "revealed flagged"}
           THEN b' = b
           ELSE \E l \in Cells(b) :
                   /\ b'.cells[l].flagged = ~b.cells[l].flagged
                   /\ CallToggleFlag(l)
                   /\ ~b.cells[l].revealed
                   /\ \A m \in Cells(b) \ {l} : b'.cells[m] = b.cells[m]
                   /\ b'.cells[l] = [b.cells[l] EXCEPT !.flagged = ~b.cells[l].flagged]
                   /\ [b' EXCEPT !.cells = b.cells] = b
                   /\ ToggleFlag(b', l) = b]_vars

\* the second call on the board was a ToggleFlag on the cell the first call had flagged:
\* the board is fresh again
C9_Witness ==
    /\ Ready
    /\ moves = 2
    /\ last.op = "ToggleFlag"
    /\ last.arg = "flagged"
    /\ Fresh(b)

\* C10: RevealAll on an initialized board returns no error and leaves every cell
\* revealed, and one more RevealAll changes nothing; on a board that is not initialized
\* it returns an error and changes nothing
C10_RevealAllRevealsOrFails ==
    [][CallRevealAll
        => IF Initialized(b)
           THEN /\ ~last'.err
                /\ \A l \in Cells(b') : b'.cells[l].revealed
                /\ FoundAll(b) = "revealed" => b' = b
                /\ RevealAll(b').bd = b'
                /\ ~RevealAll(b').err
           ELSE /\ last'.err
                /\ b' = b]_vars

\* the second call on the board was a RevealAll that found every cell revealed by the first
C10_Witness ==
    /\ Ready
    /\ moves = 2
    /\ last.op = "RevealAll"
    /\ last.arg = "revealed"
    /\ ~last.err
    /\ ~MineHit(b)
    /\ \A l \in Cells(b) : b.cells[l].revealed

\* the locations recorded in the mines list
RecordedMines(bd) == {bd.mines[i] : i \in 1 .. Len(bd.mines)}

\* C11: after the real Initialize of a round of RunConsole, which follows the placeholder
\* Initialize(0,0), the mines list holds exactly the locations of the cells with a mine:
\* mineCount entries, no duplicates, nothing left from the placeholder
C11_MinesListMatchesCells ==
    (pc = "idle" /\ g.pc \in {"init1", "loop", "read"} /\ g.gameInit /\ Initialized(b))
    => /\ Len(b.mines) = b.mineCount
       /\ Cardinality(RecordedMines(b)) = Len(b.mines)
       /\ RecordedMines(b) = MineCells(b)

\* C12: when the input has ended while a round waits for a move, the move loop ends
C12_EndOfInputEndsMoveLoop ==
    (g.pc \in {"loop", "read"} /\ g.eof) ~> (g.pc \notin {"loop", "read"})

\* C13: on a board from NewBoard that was never initialized no call crashes
C13_UninitializedBoardNeverCrashes ==
    (b # NilBoard /\ ~Initialized(b)) => pc # "panic"

\* C14: the first move RunConsole applies in a round hits no mine: after it MineHit() is
\* false and the chosen cell is revealed and has no mine
C14_FirstMoveIsSafe ==
    [][FirstMove
        => /\ ~MineHit(b')
           /\ g.location \in Cells(b')
           /\ b'.cells[g.location].revealed
           /\ ~b'.cells[g.location].hasMine
           /\ last'.op = "Click"
           /\ last'.arg = "safe"]_vars

\* the first move of a round has revealed its cell and nothing exploded
C14_Witness ==
    /\ Prompting("loop")
    /\ g.gameInit
    /\ last.op = "Click"
    /\ last.arg = "safe"
    /\ ~MineHit(b)
    /\ Cardinality(RevealedCells(b)) = 1
    /\ \A l \in RevealedCells(b) : ~b.cells[l].hasMine

\* C15: at the difficulty prompt no input line makes RunConsole crash
C15_DifficultyPromptNeverCrashes ==
    g.pc = "select" => pc # "panic"

\* C16: in a round of RunConsole a move whose row cannot be parsed or whose location is
\* outside the board changes neither the board nor the state of the round; as a first move
\* it does not start the real Initialize and the following move is still the first move
C16_InvalidMoveChangesNothing ==
    [][(Prompting("read") /\ ~g.eof)
        => \/ b' = b /\ g' = [g EXCEPT !.pc = "loop"] /\ pc' = "idle" /\ frame' = frame
           \/ \A line \in MoveLines \ {EOF} :
                 (MoveRead[line].err \/ MoveRead[line].location \notin Cells(b))
                 => ~Move(line)]_vars

\* a location outside the board was entered as the first move of a round: the board still
\* is the one of the placeholder Initialize and the first move is still to come
C16_Witness ==
    /\ Prompting("loop")
    /\ ~g.gameInit
    /\ last.op = "ValidLocation"
    /\ last.arg = "outside"
    /\ Initialized(b)
    /\ RevealedCells(b) = {}
    /\ b.cells[NewLocation(0, 0)].hasMine = FALSE

\* C17: once a Click of a round has made MineHit() true, the only step RunConsole takes
\* on that board is to leave the move loop for the difficulty prompt
C17_MineHitEndsRound ==
    [][(Prompting("loop") /\ MineHit(b))
        => /\ EndRound
           /\ g'.pc = "select"
           /\ last' = last]_vars

\* the round is over after a Click on a mine and RunConsole is back at the difficulty prompt
C17_Witness ==
    /\ Prompting("select")
    /\ b = NilBoard
    /\ ~g.gameInit
    /\ last.op = "Click"
    /\ last.arg = "mine"

\* C18: after the first move of a round, the toggle-flag command at row 1, column a is
\* applied with ToggleFlag
C18_FlagCommandTogglesFlag ==
    [][(Prompting("read") /\ g.gameInit /\ ~g.eof /\ Move(<<"f", "1", "a">>))
        => /\ b' = ToggleFlag(b, NewLocation(0, 0))
           /\ RevealedCells(b') = RevealedCells(b)]_vars

\* C19: RevealAll on an initialized board changes nothing but the revealed bits
C19_RevealAllKeepsTheRest ==
    [][(Ready /\ CallRevealAll)
        => /\ SafeRemaining(b') = SafeRemaining(b)
           /\ MineHit(b') = MineHit(b)
           /\ \A l \in Cells(b) :
                 /\ b'.cells[l].hasMine = b.cells[l].hasMine
                 /\ b'.cells[l].score = b.cells[l].score
                 /\ b'.cells[l].flagged = b.cells[l].flagged
           /\ [b' EXCEPT !.cells = b.cells] = b]_vars

\* RevealAll has revealed a board with a flagged cell and hidden cells, the mine among
\* them: nothing exploded and the counter is where Initialize left it
C19_Witness ==
    /\ Ready
    /\ moves = 2
    /\ last.op = "RevealAll"
    /\ last.arg = "hidden"
    /\ ~MineHit(b)
    /\ SafeRemaining(b) = b.rows * b.cols - b.mineCount
    /\ \E l \in Cells(b) : b.cells[l].flagged
    /\ \A l \in MineCells(b) : b.cells[l].revealed

\* C20: a Click, wherever it is, leaves every flagged hidden cell hidden
C20_ClickKeepsFlaggedHidden ==
    [][(Ready /\ Returns("Click"))
        => \A l \in Cells(b) :
              (b.cells[l].flagged /\ ~b.cells[l].revealed) => ~b'.cells[l].revealed]_vars

\* the cells with a mine that are revealed
RevealedMines(bd) == MineCells(bd) \cap RevealedCells(bd)

\* C22: on an initialized board a Click on a cell without a mine reveals no cell with a
\* mine and does not make MineHit() true; MineHit() becomes true only by a Click on a
\* hidden unflagged cell with a mine
C22_SafeClickRevealsNoMine ==
    [][(Ready /\ pc' = "idle")
        => /\ (last'.op = "Click" /\ last'.arg # "mine")
              => /\ RevealedMines(b') = RevealedMines(b)
                 /\ MineHit(b') = MineHit(b)
           /\ (MineHit(b') /\ ~MineHit(b))
              => /\ last'.op = "Click"
                 /\ last'.arg = "mine"]_vars

\* a Click on a zero-score cell has revealed several cells, none of them with a mine
C22_Witness ==
    /\ Ready
    /\ moves = 1
    /\ last.op = "Click"
    /\ last.arg = "safe"
    /\ Cardinality(RevealedCells(b)) > 1
    /\ RevealedMines(b) = {}
    /\ ~MineHit(b)

\* C24: once the board is initialized, Click, ToggleFlag and RevealAll never make a
\* revealed cell hidden again
C24_RevealedStaysRevealed ==
    [][(Ready /\ pc' = "idle" /\ Initialized(b'))
        => RevealedCells(b) \subseteq RevealedCells(b')]_vars

\* a second Click on a revealed cell has left it revealed
C24_Witness ==
    /\ Ready
    /\ moves = 2
    /\ last.op = "Click"
    /\ last.arg = "revealed"
    /\ RevealedCells(b) # {}

\* C25: once the board is initialized, Click, ToggleFlag and RevealAll change no cell's
\* hasMine or score and leave rows, cols and mineCount alone
C25_LayoutIsFixed ==
    [][(Ready /\ pc' = "idle" /\ Initialized(b'))
        => /\ b'.rows = b.rows
           /\ b'.cols = b.cols
           /\ b'.mineCount = b.mineCount
           /\ \A l \in Cells(b) :
                 /\ b'.cells[l].hasMine = b.cells[l].hasMine
                 /\ b'.cells[l].score = b.cells[l].score]_vars

\* a mine has exploded and was clicked again: it is still a mine, one of mineCount
C25_Witness ==
    /\ Ready
    /\ moves = 2
    /\ last.op = "Click"
    /\ last.arg = "revealed"
    /\ MineHit(b)
    /\ RevealedMines(b) # {}
    /\ Cardinality(MineCells(b)) = b.mineCount

\* a sequence that names no cell twice
NoRepeats(seq) == \A i, j \in DOMAIN seq : seq[i] = seq[j] => i = j

\* the cells a sequence names
Range(seq) == {seq[i] : i \in DOMAIN seq}

\* C21: the flood of a Click ends having turned each cell from hidden to revealed at
\* most once and having continued from each cell at most once; the cells it turned are
\* exactly the ones the Click revealed, and it continued only from zero-score cells
\* that this Click revealed
C21_FloodVisitsEachCellOnce ==
    [][(Ready /\ pc' = "idle" /\ last'.op = "Click")
        => /\ NoRepeats(last'.ret.revealed)
           /\ NoRepeats(last'.ret.flooded)
           /\ Range(last'.ret.revealed) = RevealedCells(b') \ RevealedCells(b)
           /\ Range(last'.ret.flooded) \subseteq Range(last'.ret.revealed)
           /\ \A c \in Range(last'.ret.flooded) : b.cells[c].score = 0]_vars

\* a flood has continued from two zero-score cells that are neighbours of each other (a
\* cycle of the neighbour graph) and that have a third, revealed, neighbour in common
C21_Witness ==
    /\ Ready
    /\ last.op = "Click"
    /\ last.arg = "safe"
    /\ \E c, n \in Range(last.ret.flooded) :
          /\ Adjacent(c, n)
          /\ \E m \in Range(last.ret.revealed) : Adjacent(c, m) /\ Adjacent(n, m)

\* the glyph spec.md gives a cell: "+" for every flagged cell, hidden or revealed
FlagFirstGlyph(bd, c) ==
    IF bd.cells[c].flagged THEN "+"
    ELSE IF ~bd.cells[c].revealed THEN "."
    ELSE IF bd.cells[c].hasMine THEN "*"
    ELSE IF bd.cells[c].score = 0 THEN "_"
    ELSE scoreRunes[bd.cells[c].score + 1]

\* C28: every cell of an initialized board is rendered "+" when flagged (hidden or
\* revealed), "." when hidden and unflagged, "*" when a revealed unflagged mine, "_" when
\* revealed with score 0 and its score's digit otherwise
C28_FlaggedCellRendersPlus ==
    Ready => \A c \in Cells(b) : Render(b, c) = FlagFirstGlyph(b, c)

\* C23: when Initialize has returned, MineHit() is false, also on a board on which a
\* mine was hit before the call
C23_InitializeClearsMineHit ==
    (pc = "idle" /\ last.op = "Initialize") => ~MineHit(b)

\* C26: in a round of RunConsole the move loop calls Initialize only on the first move
\* with a valid location, while gameInit is false and nothing is revealed; the move's
\* Click follows the return of that Initialize; from then on gameInit is true, the board
\* has been initialized exactly twice (placeholder and real call, mineCount entries of
\* b.mines each), no step of the round starts Initialize and mine positions, scores and
\* b.mines stay as they are
C26_OneRealInitializePerRound ==
    [][/\ (Prompting("read") /\ pc' = "place")
          => /\ ~g.gameInit
             /\ RevealedCells(b) = {}
             /\ g'.gameInit
             /\ g'.pc = "init1"
       /\ Prompting("init1")
          => /\ last.op = "Initialize"
             /\ Len(b.mines) = 2 * b.mineCount
             /\ last'.op = "Click"
             /\ g'.pc = "loop"
             /\ g'.gameInit
       /\ ((Prompting("loop") \/ Prompting("read")) /\ (g.gameInit \/ RevealedCells(b) # {}))
          => /\ g.gameInit
             /\ Len(b.mines) = 2 * b.mineCount
             /\ pc' = "idle"
             /\ g'.pc \in {"loop", "read"}
                => /\ g'.gameInit
                   /\ b'.mines = b.mines
                   /\ \A l \in Cells(b) :
                         /\ b'.cells[l].hasMine = b.cells[l].hasMine
                         /\ b'.cells[l].score = b.cells[l].score]_vars

\* a later move of the round has been applied after the first one, with the board
\* initialized by the placeholder and the real call only
C26_Witness ==
    /\ Prompting("loop")
    /\ g.gameInit
    /\ last.op = "Click"
    /\ last.arg = "revealed"
    /\ Len(b.mines) = 2 * b.mineCount

\* the placement loop is at the last cell of a scan
ScanEnds == frame.row = b.rows - 1 /\ frame.col = b.cols - 1

\* C27: under fair randomness every Initialize returns; while it places, the mines on
\* the board and minesToPlace add up to mineCount; once minesToPlace is 0 no cell of the
\* scan receives a mine; and the loop ends at the end of the scan in which the last of
\* the mineCount mines was placed, not before and not later
C27_InitializeTerminates ==
    /\ [][pc = "place"
           => /\ frame.minesToPlace + Cardinality(MineCells(b)) = b.mineCount
              /\ frame.minesToPlace = 0 => MineCells(b') = MineCells(b)
              /\ pc' = "idle"
                 <=> (ScanEnds /\ Cardinality(MineCells(b')) = b.mineCount)]_vars
    /\ (pc = "place") ~> (pc = "idle" /\ last.op = "Initialize")

\* Initialize has returned with mineCount mines, the last of them placed before the end
\* of its scan
C27_Witness ==
    /\ pc = "idle"
    /\ last.op = "Initialize"
    /\ Initialized(b)
    /\ Cardinality(MineCells(b)) = b.mineCount
    /\ b.mines[Len(b.mines)] # <<b.rows - 1, b.cols - 1>>

====
